---- MODULE Spec2Model ----
(***************************************************************************)
(* Model of comp_math/lab4/main.cpp: three fixed quadrature formulas       *)
(* (central_rectangles, trapezoidal_rule, simpsons_rule), the step planner *)
(* of main() that derives n from the second-derivative bound M2, and the   *)
(* adaptive step-doubling driver integrate_with_runge.                     *)
(*                                                                         *)
(* Reals.  A double is modelled as a fixed-point integer counting units of *)
(* 1/FixedScale; a quotient is truncated to that grid where the code       *)
(* stores it in a double (func, h * sum).  The Runge estimate and the      *)
(* Richardson value divide by the integer 2^p - 1; they are kept as exact  *)
(* fractions <<numerator, denominator>> so that "e < epsilon" and the      *)
(* returned value are compared without any further rounding.               *)
(***************************************************************************)
EXTENDS Integers, Sequences, FiniteSets, TLC

VARIABLES
    pc,                \* position: driver state, or the state of a pure call
    integrator,        \* which std::function the driver was given
    a, b,              \* integration limits (integers)
    epsilon,           \* tolerance, fixed-point units
    p,                 \* order of accuracy supplied by the caller
    n,                 \* int n
    I_h, I_2h,         \* double I_h, I_2h (fixed-point units)
    current_iteration, \* int current_iteration
    n_final,           \* int& n_final (the caller's variable)
    ret,               \* returned value as a fraction <<num, den>>
    cerr,              \* warnings written to std::cerr, in order
    calls,             \* subdivision counts the integrator was invoked with
    lastTwo,           \* the two most recent integrator invocations [n, v]
    q                  \* arguments and result of a pure call (formulas, planner)

vars == <<pc, integrator, a, b, epsilon, p, n, I_h, I_2h, current_iteration,
          n_final, ret, cerr, calls, lastTwo, q>>

----------------------------------------------------------------------------
(* Bounds of the model *)

MaxOrder == 5          \* orders p = 1 .. MaxOrder
MaxVal == 3            \* a std::function integrator returns 0 .. MaxVal
MaxEps == 2            \* tolerances -1 .. MaxEps for such an integrator
MaxB == 3              \* integration limits 0 .. MaxB
MaxQuadN == 5          \* subdivision counts -2 .. MaxQuadN of a direct call

----------------------------------------------------------------------------
(* Fixed-point arithmetic *)

FixedDigit == 10 * 10
FixedScale == FixedDigit * FixedDigit * FixedDigit

Abs(x) == IF x < 0 THEN -x ELSE x

\* num / den truncated to the fixed-point grid, den > 0, num >= 0.
\* Long division in three steps of FixedDigit keeps every product in range.
FixDiv(num, den) ==
    LET q0 == num \div den
        r0 == num % den
        q1 == (r0 * FixedDigit) \div den
        r1 == (r0 * FixedDigit) % den
        q2 == (r1 * FixedDigit) \div den
        r2 == (r1 * FixedDigit) % den
        q3 == (r2 * FixedDigit) \div den
    IN  q0 * FixedScale + (q1 * FixedDigit + q2) * FixedDigit + q3

----------------------------------------------------------------------------
(* The integrand and the three fixed formulas.  A node x is the fraction   *)
(* X / D of two integers; func returns f(x) on the fixed-point grid.  Each *)
(* formula returns its value and the number of calls of func it made.      *)

\* the denominator written x + 4 in place of x * x + 4
func_linear_denominator(X, D) == FixDiv(X + 3 * D, X + 4 * D)

\* func: (x + 3) / (x^2 + 4) at x = X / D, i.e. D (X + 3 D) / (X^2 + 4 D^2)
func(X, D) == FixDiv(D * (X + 3 * D), X * X + 4 * D * D)

\* the two weights exchanged: 2 at odd i, 4 at even i
SimpsonWeight_swapped(i) == IF i % 2 = 1 THEN 2 ELSE 4

\* weight of the interior node i of simpsons_rule: 4 at odd i, 2 at even i
SimpsonWeight(i) == IF i % 2 = 1 THEN 4 ELSE 2

\* if (n % 2 != 0) n++
SimpsonEven(nn) == IF nn % 2 /= 0 THEN nn + 1 ELSE nn

\* the term the loop body of a formula adds to sum at index i
\*   central_rectangles: func(a + (i + 0.5) * h)
\*   trapezoidal_rule:   func(a + i * h)
\*   simpsons_rule:      4 * func(a + i * h) or 2 * func(a + i * h)
LoopTerm(name, aa, bb, nn, i) ==
    CASE name = "central_rectangles" ->
             func(2 * aa * nn + (2 * i + 1) * (bb - aa), 2 * nn)
      [] name = "trapezoidal_rule" ->
             func(aa * nn + i * (bb - aa), nn)
      [] name = "simpsons_rule" ->
             SimpsonWeight(i) * func(aa * nn + i * (bb - aa), nn)

\* for (i = lo; i < hi; ++i) sum += term(i): what the loop adds to sum and
\* how often it calls func.  The range is split in halves, which bounds the
\* depth of the recursion; integer addition makes the order immaterial.
RECURSIVE Loop(_, _, _, _, _, _)
Loop(name, aa, bb, nn, lo, hi) ==
    IF lo >= hi THEN [sum |-> 0, evals |-> 0]
    ELSE IF hi = lo + 1
         THEN [sum |-> LoopTerm(name, aa, bb, nn, lo), evals |-> 1]
         ELSE LET mid == (lo + hi) \div 2
                  l == Loop(name, aa, bb, nn, lo, mid)
                  r == Loop(name, aa, bb, nn, mid, hi)
              IN  [sum |-> l.sum + r.sum, evals |-> l.evals + r.evals]

\* the result scaled by b / n in place of h = (b - a) / n
central_rectangles_b_over_n(aa, bb, nn) ==
    IF nn <= 0 THEN [value |-> 0, evals |-> 0]
    ELSE LET acc == Loop("central_rectangles", aa, bb, nn, 0, nn)
         IN  [value |-> (bb * acc.sum) \div nn, evals |-> acc.evals]

central_rectangles(aa, bb, nn) ==
    IF nn <= 0 THEN [value |-> 0, evals |-> 0]
    ELSE LET acc == Loop("central_rectangles", aa, bb, nn, 0, nn)
         IN  [value |-> ((bb - aa) * acc.sum) \div nn, evals |-> acc.evals]

\* the guard written n == 0 in place of n <= 0
trapezoidal_rule_zero_guard(aa, bb, nn) ==
    IF nn = 0 THEN [value |-> 0, evals |-> 0]
    ELSE LET ends == (func(aa, 1) + func(bb, 1)) \div 2
             acc == Loop("trapezoidal_rule", aa, bb, nn, 1, nn)
         IN  [value |-> ((bb - aa) * (ends + acc.sum)) \div nn,
              evals |-> 2 + acc.evals]

trapezoidal_rule(aa, bb, nn) ==
    IF nn <= 0 THEN [value |-> 0, evals |-> 0]
    ELSE LET ends == (func(aa, 1) + func(bb, 1)) \div 2
             acc == Loop("trapezoidal_rule", aa, bb, nn, 1, nn)
         IN  [value |-> ((bb - aa) * (ends + acc.sum)) \div nn,
              evals |-> 2 + acc.evals]

simpsons_rule(aa, bb, nn) ==
    IF nn <= 0 THEN [value |-> 0, evals |-> 0]
    ELSE LET ne == SimpsonEven(nn)
             ends == func(aa, 1) + func(bb, 1)
             acc == Loop("simpsons_rule", aa, bb, ne, 1, ne)
         IN  [value |-> ((bb - aa) * (ends + acc.sum)) \div (3 * ne),
              evals |-> 2 + acc.evals]

Formulas == {"central_rectangles", "trapezoidal_rule", "simpsons_rule"}

Formula(name, aa, bb, nn) ==
    CASE name = "central_rectangles" -> central_rectangles(aa, bb, nn)
      [] name = "trapezoidal_rule" -> trapezoidal_rule(aa, bb, nn)
      [] name = "simpsons_rule" -> simpsons_rule(aa, bb, nn)

----------------------------------------------------------------------------
(* integrate_with_runge *)

\* what integrator(a, b, n) can return: a formula of this program returns
\* its value, any other std::function returns any value
AnyIntegrator == "std::function"

IntegratorResults(name, aa, bb, nn) ==
    IF name = AnyIntegrator THEN 0 .. MaxVal
    ELSE {Formula(name, aa, bb, nn).value}

\* int n = 2; if (p == 4) { n = (n % 2 == 0) ? n : n + 1; if (n == 0) n = 2; }
initial_n == 2

\* the driver started at n = 1
InitialN_one(pp) == 1

InitialN(pp) ==
    IF pp = 4
    THEN LET n1 == IF initial_n % 2 = 0 THEN initial_n ELSE initial_n + 1
         IN  IF n1 = 0 THEN 2 ELSE n1
    ELSE initial_n

max_iterations == 2000

\* the floor set to 4 (the value the comment on line 254 also mentions)
min_n_for_reliable_runge_4(pp) == IF pp = 4 THEN 4 ELSE 1

\* int min_n_for_reliable_runge = 1; if (p == 4) min_n_for_reliable_runge = 8;
min_n_for_reliable_runge(pp) == IF pp = 4 THEN 8 ELSE 1

\* n += 2 in place of n *= 2
Double_add(nn) == nn + 2

\* n *= 2 on a 32-bit int (two's complement wrap-around)
Double(nn) ==
    IF nn >= 1073741824 THEN ((nn - 1073741824) * 2 - 2147483647) - 1
    ELSE IF nn < -1073741824 THEN ((nn + 1073741824) * 2 + 2147483647) + 1
    ELSE nn * 2

\* std::pow(2, p) - 1.0
runge_denominator(pp) == 2 ^ pp - 1

\* std::abs(I_h - I_2h) / runge_denominator < epsilon, the denominator > 0
current_error_estimate_below(Ih, I2h, pp, eps) ==
    Abs(Ih - I2h) < eps * runge_denominator(pp)

\* stopping_condition_met after the additional check for high orders
stopping_condition_met(Ih, I2h, pp, eps, nn, iter) ==
    LET met == current_error_estimate_below(Ih, I2h, pp, eps)
    IN  IF pp >= 4 /\ nn < min_n_for_reliable_runge(pp) /\ met
           /\ iter < max_iterations - 1
        THEN FALSE
        ELSE met

\* the unrefined I_h returned in place of the Richardson value
Richardson_plain(Ih, I2h, pp) ==
    <<Ih * runge_denominator(pp), runge_denominator(pp)>>

\* I_h + (I_h - I_2h) / (2^p - 1) as the fraction <<numerator, denominator>>
Richardson(Ih, I2h, pp) ==
    <<Ih * runge_denominator(pp) + (Ih - I2h), runge_denominator(pp)>>

\* the threshold with one more zero
n_limit_tenfold == 10 * 4000000

\* if (n > 4000000) { std::cerr << ...; break; }
n_limit == 4000000

\* the threshold compared with n / 2, the count of the previous pass
n_too_large_prev(nn) == nn \div 2 > n_limit

n_too_large(nn) == nn > n_limit

\* } while (current_iteration < max_iterations);
loop_continues(iter) == iter < max_iterations

\* the break dropped and the loop condition written with <=
loop_left_late(nn, iter) == ~(iter <= max_iterations)

\* lines 290-298: the loop is left by the break or by the loop condition,
\* current_iteration already incremented
loop_left(nn, iter) == n_too_large(nn) \/ ~loop_continues(iter)

\* the warning after the loop dropped
Warnings_break_only(nn) ==
    IF n_too_large(nn) THEN <<"max_n_reached">> ELSE <<>>

\* the warnings on std::cerr when the loop is left: line 293 inside the
\* break branch, line 301 after the loop
Warnings(nn) ==
    (IF n_too_large(nn) THEN <<"max_n_reached">> ELSE <<>>)
    \o <<"not_converged">>

\* no result yet.  I_2h and the caller's n_final are uninitialised and are
\* written before they are read; they start as 0 (no return assigns 0 to
\* n_final), as do n and I_h before line 231 and line 241 have run.
Unset == <<>>

\* lines 231-258: the first integrator call
RungeInit ==
    /\ pc = "Initializing"
    /\ \E v \in IntegratorResults(integrator, a, b, InitialN(p)) :
          /\ n' = InitialN(p)
          /\ I_h' = v
          /\ calls' = <<InitialN(p)>>
          /\ lastTwo' = <<[n |-> InitialN(p), v |-> v]>>
    /\ current_iteration' = 0
    /\ pc' = "Iterating"
    /\ UNCHANGED <<integrator, a, b, epsilon, p, I_2h, n_final, ret, cerr, q>>

\* lines 261-310: one pass of the do-while body and, when the loop is left,
\* the return that follows it
RungeIterate ==
    /\ pc = "Iterating"
    /\ \E v \in IntegratorResults(integrator, a, b, Double(n)) :
          LET n2 == Double(n)
              met == stopping_condition_met(v, I_h, p, epsilon, n2,
                                            current_iteration)
              left == loop_left(n2, current_iteration + 1)
          IN  /\ I_2h' = I_h
              /\ n' = n2
              /\ I_h' = v
              /\ calls' = Append(calls, n2)
              /\ lastTwo' = <<lastTwo[Len(lastTwo)], [n |-> n2, v |-> v]>>
              /\ IF met
                 THEN /\ n_final' = n2
                      /\ ret' = Richardson(v, I_h, p)
                      /\ pc' = "Converged"
                      /\ UNCHANGED <<current_iteration, cerr>>
                 ELSE /\ current_iteration' = current_iteration + 1
                      /\ cerr' = IF left THEN cerr \o Warnings(n2) ELSE cerr
                      /\ IF left
                         THEN /\ n_final' = n2
                              /\ ret' = Richardson(v, I_h, p)
                              /\ pc' = "ExhaustedBudget"
                         ELSE /\ pc' = "Iterating"
                              /\ UNCHANGED <<n_final, ret>>
    /\ UNCHANGED <<integrator, a, b, epsilon, p, q>>

Next == RungeInit \/ RungeIterate

\* a caller that passes any order, any tolerance and any integrator
Init ==
    /\ pc = "Initializing"
    /\ integrator = AnyIntegrator
    /\ a = 0 /\ b = 2
    /\ epsilon \in -1 .. MaxEps
    /\ p \in 1 .. MaxOrder
    /\ n = 0 /\ I_h = 0 /\ I_2h = 0 /\ current_iteration = 0
    /\ n_final = 0 /\ ret = Unset
    /\ cerr = <<>> /\ calls = <<>> /\ lastTwo = <<>>
    /\ q = Unset

Spec == Init /\ [][Next]_vars

\* main(): epsilon = 0.0001 (line 321), a = 0.0, b = 2.0 (lines 317-318)
main_epsilon == FixedScale \div 10000
main_a == 0
main_b == 2

\* std::log(2.0) and M_PI on the fixed-point grid
log_2 == 693147
M_PI == 3141592

\* const double exact_value = (0.5 * std::log(2.0)) + (3.0 * M_PI / 8.0);
exact_value == log_2 \div 2 + (3 * M_PI) \div 8

MainTolerances == {main_epsilon * 100, main_epsilon * 10, main_epsilon}

\* main() lines 391 and 399: the driver is given trapezoidal_rule with p = 2
\* or simpsons_rule with p = 4; the limits and the tolerance vary around the
\* values main() uses
InitMain ==
    /\ pc = "Initializing"
    /\ \E c \in {<<"trapezoidal_rule", 2>>, <<"simpsons_rule", 4>>} :
          integrator = c[1] /\ p = c[2]
    /\ a \in 0 .. MaxB /\ b \in 0 .. MaxB /\ a < b
    /\ epsilon \in MainTolerances
    /\ n = 0 /\ I_h = 0 /\ I_2h = 0 /\ current_iteration = 0
    /\ n_final = 0 /\ ret = Unset
    /\ cerr = <<>> /\ calls = <<>> /\ lastTwo = <<>>
    /\ q = Unset

SpecMain == InitMain /\ [][Next]_vars

FairSpec == Spec /\ WF_vars(Next)

----------------------------------------------------------------------------
(* A direct call of one of the three formulas *)

NoResult == [value |-> 0, evals |-> 0]

InitQuad ==
    /\ pc = "QuadCall"
    /\ integrator \in Formulas
    /\ a \in 0 .. MaxB /\ b \in 0 .. MaxB
    /\ \E nn \in -2 .. MaxQuadN : q = [n |-> nn, result |-> NoResult]
    /\ epsilon = 0 /\ p = 0
    /\ n = 0 /\ I_h = 0 /\ I_2h = 0 /\ current_iteration = 0
    /\ n_final = 0 /\ ret = Unset
    /\ cerr = <<>> /\ calls = <<>> /\ lastTwo = <<>>

\* integrator(a, b, n) called and returned
QuadApply ==
    /\ pc = "QuadCall"
    /\ q' = [q EXCEPT !.result = Formula(integrator, a, b, q.n)]
    /\ pc' = "QuadDone"
    /\ UNCHANGED <<integrator, a, b, epsilon, p, n, I_h, I_2h,
                   current_iteration, n_final, ret, cerr, calls, lastTwo>>

NextQuad == QuadApply

SpecQuad == InitQuad /\ [][NextQuad]_vars

----------------------------------------------------------------------------
(* The step planner of main(), lines 357-373 *)

\* constexpr double M2_val = 0.43156, on the fixed-point grid
M2_val == 431560

\* the constants 24.0 (central rectangles) and 12.0 (trapezoids)
k_rect == 24
k_trap == 12

\* the largest m in lo .. hi with m * m <= x, by bisection
RECURSIVE ISqrt(_, _, _)
ISqrt(x, lo, hi) ==
    IF lo >= hi THEN lo
    ELSE LET mid == (lo + hi + 1) \div 2
         IN  IF mid * mid <= x THEN ISqrt(x, mid, hi) ELSE ISqrt(x, lo, mid - 1)

\* std::ceil(std::sqrt(num / den)), num >= 0, den > 0
CeilSqrt(num, den) ==
    LET x == num \div den
        m == ISqrt(x, 0, IF x < 46340 THEN x ELSE 46340)
    IN  IF m * m * den = num THEN m ELSE m + 1

\* the cast to int truncating a square root that std::ceil never rounded up
PlannedN_no_ceil(L, M2, k, eps) ==
    LET x == (L * L * L * M2) \div (k * eps)
        n0 == ISqrt(x, 0, IF x < 46340 THEN x ELSE 46340)
    IN  IF n0 = 0 THEN 1 ELSE n0

\* int n = static_cast<int>(std::ceil(std::sqrt(std::pow(b - a, 3) * M2_val
\*                                              / (k * epsilon))));
\* if (n == 0) n = 1;
PlannedN(L, M2, k, eps) ==
    LET n0 == CeilSqrt(L * L * L * M2, k * eps)
    IN  IF n0 = 0 THEN 1 ELSE n0

InitPlanner ==
    /\ pc = "PlanCall"
    /\ a \in 0 .. MaxB /\ b \in 0 .. MaxB /\ a <= b
    /\ epsilon \in MainTolerances
    /\ \E k \in {k_rect, k_trap}, M2 \in {0, M2_val, 2 * M2_val} :
          q = [k |-> k, M2 |-> M2, n |-> 0]
    /\ integrator = "none" /\ p = 0
    /\ n = 0 /\ I_h = 0 /\ I_2h = 0 /\ current_iteration = 0
    /\ n_final = 0 /\ ret = Unset
    /\ cerr = <<>> /\ calls = <<>> /\ lastTwo = <<>>

PlanApply ==
    /\ pc = "PlanCall"
    /\ q' = [q EXCEPT !.n = PlannedN(b - a, q.M2, q.k, epsilon)]
    /\ pc' = "PlanDone"
    /\ UNCHANGED <<integrator, a, b, epsilon, p, n, I_h, I_2h,
                   current_iteration, n_final, ret, cerr, calls, lastTwo>>

NextPlanner == PlanApply

SpecPlanner == InitPlanner /\ [][NextPlanner]_vars

----------------------------------------------------------------------------
(* Properties of the planner and of the formulas *)

\* L^3 * M2 / (k * m^2) <= epsilon, cleared of the division (m >= 1)
BoundMet(m) ==
    (b - a) * (b - a) * (b - a) * q.M2 <= epsilon * q.k * m * m

MainPlan ==
    /\ pc = "PlanDone"
    /\ a = main_a /\ b = main_b /\ epsilon = main_epsilon /\ q.M2 = M2_val

\* C9: the planner returns the least integer n >= 1 with
\* L^3 * M2 / (k * n^2) <= epsilon; for L = 2, M2 = 0.43156, epsilon = 0.0001
\* that is n = 38 for k = 24 and n = 54 for k = 12, and n - 1 fails the bound.
C9_PlannerMinimalN ==
    pc = "PlanDone" =>
        /\ q.n >= 1
        /\ BoundMet(q.n)
        /\ q.n > 1 => ~BoundMet(q.n - 1)
        /\ (MainPlan /\ q.k = 24) => (q.n = 38 /\ ~BoundMet(37))
        /\ (MainPlan /\ q.k = 12) => (q.n = 54 /\ ~BoundMet(53))

C9_Witness == MainPlan /\ q.k = 24 /\ q.n = 38

\* C10: each of the three formulas returns 0.0 for n <= 0, on every
\* interval, without evaluating the integrand.
C10_NonPositiveN ==
    (pc = "QuadDone" /\ q.n <= 0) =>
        (q.result.value = 0 /\ q.result.evals = 0)

C10_Witness ==
    /\ pc = "QuadDone" /\ q.n = -1 /\ integrator = "trapezoidal_rule"
    /\ a = main_a /\ b = main_b
    /\ q.result = [value |-> 0, evals |-> 0]

\* 4 f(x_1) + 2 f(x_2) + ... over the interior nodes x_j = a + j (b - a) / m,
\* j = 1 .. i, as the claim states the weights
RECURSIVE SimpsonReferenceSum(_, _)
SimpsonReferenceSum(m, i) ==
    IF i < 1 THEN 0
    ELSE SimpsonReferenceSum(m, i - 1)
         + (IF i % 2 = 1 THEN 4 ELSE 2) * func(a * m + i * (b - a), m)

\* Simpson's formula with m intervals of width (b - a) / m
SimpsonReference(m) ==
    ((b - a) * (func(a, 1) + func(b, 1) + SimpsonReferenceSum(m, m - 1)))
    \div (3 * m)

\* the sum of the weights simpsons_rule gives the nodes 0 .. m: 1 at both
\* ends (line 169), SimpsonWeight inside
RECURSIVE InteriorWeights(_)
InteriorWeights(i) ==
    IF i < 1 THEN 0 ELSE InteriorWeights(i - 1) + SimpsonWeight(i)

SimpsonWeightTotal(m) == 1 + InteriorWeights(m - 1) + 1

OddSimpsonCall ==
    /\ pc = "QuadDone" /\ integrator = "simpsons_rule"
    /\ q.n > 0 /\ q.n % 2 = 1

\* C11: for every interval and every odd n > 0, simpsons_rule(a, b, n)
\* equals simpsons_rule(a, b, n + 1), uses the step (b - a) / (n + 1) over
\* n + 2 nodes, weights the interior nodes 4 at odd and 2 at even indices,
\* and the weights 1, 4, 2, ..., 2, 4, 1 sum to 3 * (n + 1).
C11_SimpsonOddRoundedUp ==
    OddSimpsonCall =>
        /\ q.result = simpsons_rule(a, b, q.n + 1)
        /\ q.result.value = SimpsonReference(q.n + 1)
        /\ q.result.evals = q.n + 2
        /\ SimpsonWeightTotal(SimpsonEven(q.n)) = 3 * (q.n + 1)

C11_Witness ==
    /\ OddSimpsonCall /\ q.n = 3 /\ a = main_a /\ b = main_b
    /\ q.result.evals = 5 /\ q.result.value > 0
    /\ q.result.value = SimpsonReference(4)

ZeroWidthCall == pc = "QuadDone" /\ a = b

\* C12: each of the three formulas gives 0.0 on a zero-width interval,
\* integrator(a, a, n) = 0.0 for every a and every integer n.
C12_ZeroWidth == ZeroWidthCall => q.result.value = 0

\* a zero-width call with n > 0 that did evaluate the integrand
C12_Witness ==
    /\ ZeroWidthCall /\ a = 2 /\ q.n = 3
    /\ integrator = "central_rectangles"
    /\ q.result.evals = 3 /\ q.result.value = 0

----------------------------------------------------------------------------
(* Properties of integrate_with_runge *)

Returned == pc \in {"Converged", "ExhaustedBudget"}

\* number of passes of the do-while body made so far
LoopPasses == Len(calls) - 1

\* the value of current_iteration when stopping_condition_met was last
\* evaluated: the Converged return leaves it, every other pass increments it
IterationAtCheck ==
    IF pc = "Converged" THEN current_iteration ELSE current_iteration - 1

Warned == \E i \in 1 .. Len(cerr) : cerr[i] = "not_converged"

\* C1: for every order p, an iteration returns through the Converged path
\* if and only if its Runge estimate is below epsilon and (p < 4 or n >= 8);
\* in particular no Converged return has n < 8 when p >= 4.
C1_StoppingRule ==
    (Returned \/ (pc = "Iterating" /\ LoopPasses >= 1)) =>
        /\ (pc = "Converged") <=>
              (/\ current_error_estimate_below(I_h, I_2h, p, epsilon)
               /\ (p < 4 \/ n >= 8))
        /\ (pc = "Converged" /\ p >= 4) => n >= 8

\* |value - center| <= tol for a value given as a fraction, denominator > 0
Within(value, center, tol) ==
    Abs(value[1] - center * value[2]) <= tol * value[2]

MainCall ==
    Returned /\ a = main_a /\ b = main_b /\ epsilon = main_epsilon

\* C2 as stated: on [0, 2] with epsilon = 0.0001 the trapezoidal (p = 2) and
\* the Simpson (p = 4) call each return through the Converged path a value
\* within 0.0001 of the exact value, given as about 1.1525675803.
C2_Within1152567 ==
    MainCall => (pc = "Converged" /\ Within(ret, 1152567, main_epsilon))

\* C2 amended: the same with the exact value 0.5 ln 2 + 3 pi / 8, which is
\* about 1.5246708 (exact_value of main()).
C2_WithinExactValue ==
    MainCall => (pc = "Converged" /\ Within(ret, exact_value, main_epsilon))

C2_Witness ==
    /\ MainCall /\ pc = "Converged"
    /\ integrator = "simpsons_rule" /\ p = 4 /\ n_final = 8
    /\ Within(ret, exact_value, main_epsilon)

\* C3 as stated: no integrator call and no reported final n exceeds 4,000,000.
C3_Ceiling4000000 ==
    /\ \A i \in 1 .. Len(calls) : calls[i] <= 4000000
    /\ Returned => n_final <= 4000000

\* C3 amended: no integrator call and no reported final n exceeds 4,194,304
\* (2^22, the first doubling past 4,000,000), and a call with n above
\* 4,000,000 is the last call of the run.
C3_CeilingAfterCall ==
    /\ \A i \in 1 .. Len(calls) :
          /\ calls[i] <= 4194304
          /\ calls[i] > 4000000 => (i = Len(calls) /\ Returned)
    /\ Returned => n_final <= 4194304

C3_Witness == pc = "ExhaustedBudget" /\ n_final = 4194304 /\ LoopPasses = 21

\* C4: a return that did not meet the stopping condition still hands back a
\* value and the final n and carries the non-convergence warning; a return
\* that met it carries no warning.
C4_NonConvergenceFlagged ==
    Returned =>
        /\ ret /= Unset
        /\ n_final = n
        /\ Warned <=> ~stopping_condition_met(I_h, I_2h, p, epsilon, n,
                                              IterationAtCheck)
        /\ Warned <=> pc = "ExhaustedBudget"
        /\ pc = "Converged" => cerr = <<>>

C4_Witness == pc = "ExhaustedBudget" /\ Warned /\ ret /= Unset /\ epsilon > 0

\* C5: every run of the driver eventually returns a value and a final n,
\* having made at most 2000 passes of the loop, also when epsilon <= 0.
C5_Terminates ==
    <>(Returned /\ ret /= Unset /\ n_final = n /\ LoopPasses <= 2000)

C5_Witness == pc = "ExhaustedBudget" /\ epsilon <= 0 /\ ret /= Unset

\* C6: on every return the value is I_h + (I_h - I_2h) / (2^p - 1) with I_h
\* the integrator's result at the reported final n and I_2h its result at
\* exactly final n / 2, and the final n is the n of the last integrator call.
C6_ReturnedValue ==
    Returned =>
        /\ Len(lastTwo) = 2
        /\ lastTwo[2].n = n_final
        /\ lastTwo[1].n * 2 = n_final
        /\ calls[Len(calls)] = n_final
        /\ ret[2] /= 0
        /\ ret[1] * (2 ^ p - 1) =
              (lastTwo[2].v * (2 ^ p - 1) + (lastTwo[2].v - lastTwo[1].v))
              * ret[2]

C6_Witness ==
    /\ pc = "Converged" /\ p = 2 /\ n_final = 8
    /\ lastTwo[2].v /= lastTwo[1].v
    /\ ret = <<3 * lastTwo[2].v + lastTwo[2].v - lastTwo[1].v, 3>>

\* C7: with p = 4 the reported final n is at least 8 on every return, also
\* when the Runge estimate is already below epsilon at n = 4.
C7_SimpsonFloor == (Returned /\ p = 4) => n_final >= 8

\* the estimate at n = 4 is below epsilon and the driver goes on
C7_Witness ==
    /\ p = 4 /\ pc = "Iterating" /\ n = 4 /\ LoopPasses = 1
    /\ current_error_estimate_below(I_h, I_2h, p, epsilon)

\* C8: after k >= 1 passes of the loop the reported final n is 2 * 2^k, so
\* never below 4, whatever p and whichever return.
C8_FinalNPowerOfTwo ==
    Returned =>
        /\ LoopPasses >= 1
        /\ n_final = 2 * 2 ^ LoopPasses
        /\ n_final >= 4

C8_Witness == pc = "Converged" /\ p = 2 /\ LoopPasses = 3 /\ n_final = 16

C14_ExhaustionBySubdivisions ==
    /\ current_iteration <= 21
    /\ n <= 4194304
    /\ \A i \in 1 .. Len(calls) :
          /\ calls[i] > 0 /\ calls[i] <= 2147483647
          /\ i > 1 => calls[i] = 2 * calls[i - 1]
    /\ pc = "ExhaustedBudget" =>
          /\ n_final = 4194304
          /\ current_iteration = 21
          /\ LoopPasses = 21
          /\ current_iteration < max_iterations
          /\ cerr = <<"max_n_reached", "not_converged">>

C14_Witness ==
    /\ pc = "ExhaustedBudget" /\ current_iteration = 21
    /\ n = 4194304 /\ n_final = n
    /\ cerr = <<"max_n_reached", "not_converged">>

====
